---- MODULE Spec2Model ----
(***************************************************************************)
(* Model of api/find-programs.js: the edge handler that relays one inbound *)
(* request to the search provider (Tavily) and then to the language-model  *)
(* provider (OpenAI), and assembles the JSON response.                     *)
(*                                                                         *)
(* The source file holds two variants of the handler (lines 19-193 and     *)
(* lines 217-379).  Both are modelled; `variant` says which one serves the *)
(* request.  One behaviour of the model is one request: the handler runs   *)
(* from `start` to its first fetch, is resumed by the search provider's    *)
(* response, runs to its second fetch, is resumed by the language-model    *)
(* provider's response, and ends in `done` with the response it returned.  *)
(***************************************************************************)
EXTENDS Integers, Sequences, FiniteSets, TLC

VARIABLES
    variant,      \* 1: handler of lines 19-193, 2: handler of lines 217-379
    method,       \* req.method
    q,            \* the query parameters of req.url
    env,          \* process.env: the two credentials
    pc,           \* where the handler is: start, awaitTavily, awaitOpenAI, done
    calls,        \* the outbound fetch calls issued so far, in order
    tavilyIn,     \* the search provider's response the handler was resumed with
    openaiIn,     \* the language-model provider's response the handler was resumed with
    snippets,     \* const snippets (kept across the second await)
    response      \* the Response the handler returned

vars == <<variant, method, q, env, pc, calls, tavilyIn, openaiIn, snippets, response>>

----------------------------------------------------------------------------
(* Bounds of the model *)

\* longest `results` list the search provider returns
MaxResults == 4
\* longest `programs` array the language model returns
MaxAiPrograms == 4

(* Program constants *)

\* .slice(0, 3): the cap on returned candidates
MaxPrograms == 3
\* .slice(0, 4000): the digest budget of variant 1
DigestBudget == 4000

----------------------------------------------------------------------------
(* JavaScript values.  A value is a record [t, n, s]: its type tag, its    *)
(* numeric payload and its string payload.  NaN and Infinity are numbers   *)
(* whose s names them.                                                     *)

Undef == [t |-> "undefined", n |-> 0, s |-> ""]
Null == [t |-> "null", n |-> 0, s |-> ""]
Num(n) == [t |-> "number", n |-> n, s |-> ""]
NaN == [t |-> "number", n |-> 0, s |-> "NaN"]
Infinity == [t |-> "number", n |-> 0, s |-> "Infinity"]
Str(s) == [t |-> "string", n |-> 0, s |-> s]
Bool(b) == [t |-> "boolean", n |-> IF b THEN 1 ELSE 0, s |-> ""]
Obj == [t |-> "object", n |-> 0, s |-> "[object Object]"]

\* a ?? b
Nullish(v) == v.t \in {"undefined", "null"}
Coalesce(a, b) == IF Nullish(a) THEN b ELSE a

\* typeof v === "number": lets NaN and Infinity through
TypeofNumber(v) == v.t = "number"

\* Number.isFinite(v): true only of a value of type number that is finite
NumberIsFinite(v) == v.t = "number" /\ v.s = ""

\* Number.isFinite(x) ? Number(x) : null
FiniteOrNull(v) == IF NumberIsFinite(v) THEN v ELSE Null

\* typeof x === "boolean" ? x : null
BooleanOrNull(v) == IF v.t = "boolean" THEN v ELSE Null

\* Boolean(x)
ToBoolean(v) ==
    CASE v.t = "boolean" -> v
      [] v.t \in {"undefined", "null"} -> Bool(FALSE)
      [] v.t = "number" -> Bool(v.s = "Infinity" \/ (v.s = "" /\ v.n # 0))
      [] v.t = "string" -> Bool(v.s # "")
      [] OTHER -> Bool(TRUE)

\* String.prototype.trim on the strings of the model
Trim(s) ==
    CASE s = " MS CS " -> "MS CS"
      [] s = "MIT " -> "MIT"
      [] s = "  " -> ""
      [] OTHER -> s

\* String(x ?? "").trim()
TrimmedString(v) ==
    LET x == Coalesce(v, Str(""))
    IN  CASE x.t = "string" -> Str(Trim(x.s))
          [] x.t = "boolean" -> Str(IF x.n = 1 THEN "true" ELSE "false")
          [] OTHER -> Str(x.s)

----------------------------------------------------------------------------
(* Strings the handler inspects character by character are tuples of       *)
(* one-character strings.                                                  *)

LowerChar(c) ==
    CASE c = "A" -> "a" [] c = "E" -> "e" [] c = "F" -> "f" [] c = "O" -> "o"
      [] c = "Q" -> "q" [] c = "R" -> "r" [] c = "T" -> "t" [] c = "U" -> "u"
      [] OTHER -> c

\* String.prototype.toLowerCase
ToLowerCase(cs) == [i \in 1..Len(cs) |-> LowerChar(cs[i])]

\* cs contains w as a substring
Contains(cs, w) ==
    \E i \in 0..(Len(cs) - Len(w)) : \A k \in 1..Len(w) : cs[i + k] = w[k]

\* /quota|rate/i.test(err)
QuotaOrRate(err) ==
    \/ Contains(ToLowerCase(err), <<"q", "u", "o", "t", "a">>)
    \/ Contains(ToLowerCase(err), <<"r", "a", "t", "e">>)

----------------------------------------------------------------------------
(* The inputs of one request *)

Absent == [present |-> FALSE, cs |-> <<>>]
Given(cs) == [present |-> TRUE, cs |-> cs]

\* values of ?openai=
OpenaiParams ==
    {Absent, Given(<<"o", "f", "f">>), Given(<<"O", "F", "F">>), Given(<<"o", "n">>)}
\* the preference parameters: all absent, or all given
Preferences ==
    {[gpa |-> Undef, budget |-> Undef, program |-> Undef, state |-> Undef,
      stemOnly |-> Absent],
     [gpa |-> Str("3.6"), budget |-> Str("30000"), program |-> Str("Data Science"),
      state |-> Str("Texas"), stemOnly |-> Given(<<"T", "R", "U", "E">>)],
     [gpa |-> Undef, budget |-> Undef, program |-> Undef, state |-> Str("Any"),
      stemOnly |-> Given(<<"y", "e", "s">>)]}

\* Object.fromEntries(new URL(req.url).searchParams)
Queries ==
    {[gpa |-> p.gpa, budget |-> p.budget, program |-> p.program, state |-> p.state,
      stemOnly |-> p.stemOnly, openai |-> o] : p \in Preferences, o \in OpenaiParams}

Envs ==
    [TAVILY_API_KEY : {Undef, Str("tvly-key")},
     OPENAI_API_KEY : {Undef, Str("sk-key")}]

\* !x for a credential
Falsy(v) == Nullish(v) \/ (v.t = "string" /\ v.s = "")

\* String(x ?? dflt).toLowerCase() === word
ParamIs(p, dflt, word) ==
    ToLowerCase(IF p.present THEN p.cs ELSE dflt) = word

\* const stemOnly
StemOnly(qq) == ParamIs(qq.stemOnly, <<"f", "a", "l", "s", "e">>, <<"t", "r", "u", "e">>)
\* const openaiOff
OpenaiOff(qq) == ParamIs(qq.openai, <<"o", "n">>, <<"o", "f", "f">>)

\* const gpa, budget, program, state
Gpa(qq) == Coalesce(qq.gpa, Str("3.0")).s
Budget(qq) == Coalesce(qq.budget, Str("25000")).s
Program(qq) == Coalesce(qq.program, Str("Computer Science")).s
State(qq) == Coalesce(qq.state, Str("Any")).s

\* const searchQuery / const query: the pieces of the template, in order
SearchQuery(qq) ==
    <<"best", Program(qq), "master's programs",
      IF State(qq) # "Any" THEN "in " \o State(qq) ELSE "in the US",
      "tuition, minimum GPA, GRE/GMAT policy, scholarships",
      IF StemOnly(qq) THEN "STEM only" ELSE "">>

\* the echo of the inputs in a success envelope
QueryEcho(qq) ==
    [gpa |-> Gpa(qq), budget |-> Budget(qq), program |-> Program(qq),
     state |-> State(qq), stemOnly |-> StemOnly(qq), usedQuery |-> SearchQuery(qq)]

NoQuery ==
    [gpa |-> "", budget |-> "", program |-> "", state |-> "", stemOnly |-> FALSE,
     usedQuery |-> <<>>]

----------------------------------------------------------------------------
(* The search provider's responses *)

Titles ==
    <<"MIT MS CS", "Stanford MSCS", "UT Austin MSDS", "Georgia Tech OMSCS",
      "CMU MCDS", "UIUC MCS", "Purdue MS", "Rice MDS", "UCLA MSCS">>

\* one item of `results`; len is the length of the digest block it yields
Result(i, long) ==
    [title |-> Str(Titles[((i - 1) % Len(Titles)) + 1]),
     url |-> Str("https://example.edu/" \o Titles[((i - 1) % Len(Titles)) + 1]),
     len |-> IF long THEN 1500 ELSE 200]

ResultLists ==
    {[i \in 1..n |-> Result(i, long)] : n \in 0..MaxResults, long \in BOOLEAN}

\* the `results` field of the search provider's JSON body
ResultsFields ==
    {[t |-> "undefined", items |-> <<>>], [t |-> "null", items |-> <<>>]}
      \cup {[t |-> "array", items |-> rs] : rs \in ResultLists}

ErrBodies ==
    {<<>>,
     <<"d", "o", "w", "n">>,
     <<"Q", "u", "o", "t", "a">>,
     <<"R", "A", "T", "E">>,
     <<"g", "e", "n", "e", "r", "a", "t", "e">>}

NoResults == [t |-> "undefined", items |-> <<>>]

TavilyResponses ==
    {[ok |-> FALSE, status |-> st, body |-> b, results |-> NoResults] :
        st \in {401, 500}, b \in {<<>>, <<"d", "o", "w", "n">>}}
      \cup {[ok |-> TRUE, status |-> 200, body |-> <<>>, results |-> r] :
              r \in ResultsFields}

NoTavily == [ok |-> FALSE, status |-> 0, body |-> <<>>, results |-> NoResults]

----------------------------------------------------------------------------
(* The language-model provider's responses *)

\* one entry of the model's `programs` array: null, or an object
RawProgram(name, school, tuition, stem, score) ==
    [isNull |-> FALSE, name |-> name, school |-> school, tuition |-> tuition,
     url |-> Str("https://example.edu/p"), minGpa |-> Undef, testPolicy |-> Null,
     stem |-> stem, deadline |-> Str("Dec 15"), why |-> Str("fits budget"),
     score |-> score]

NullProgram ==
    [isNull |-> TRUE, name |-> Undef, school |-> Undef, tuition |-> Undef,
     url |-> Undef, minGpa |-> Undef, testPolicy |-> Undef, stem |-> Undef,
     deadline |-> Undef, why |-> Undef, score |-> Undef]

\* the kinds of entry: between them tuition and score take every type of value
RawKinds ==
    <<RawProgram(Str(" MS CS "), Str("MIT "), Num(12345), Bool(TRUE), Str("90")),
      RawProgram(Undef, Null, NaN, Str("yes"), Infinity),
      RawProgram(Str("MSDS"), Str("UT"), Null, Undef, Undef),
      RawProgram(Str("MCS"), Obj, Obj, Bool(FALSE), Num(88)),
      RawProgram(Str("MDS"), Str("Rice"), Str("20000"), Null, NaN),
      RawProgram(Str("MSE"), Str("CMU"), Infinity, Num(1), Null),
      NullProgram>>

\* the array of n entries whose kinds run through RawKinds from the k-th on
RawArray(n, k) == [i \in 1..n |-> RawKinds[((k + i - 2) % Len(RawKinds)) + 1]]

\* the `programs` field of the model's JSON: absent, not an array, or an array
ProgramsFields ==
    {[t |-> "undefined", items |-> <<>>], [t |-> "string", items |-> <<>>]}
      \cup {[t |-> "array", items |-> RawArray(n, k)] :
              n \in 0..MaxAiPrograms, k \in 1..Len(RawKinds)}

\* the members of the JSON object the model wrote
Payloads ==
    [ok : {Undef, Bool(FALSE)}, programs : ProgramsFields,
     notes : {Undef, Str("ranked by fit")}]

EmptyPayload ==
    [ok |-> Undef, programs |-> [t |-> "undefined", items |-> <<>>], notes |-> Undef]

\* The model's text, as tokens: "w" a run of prose, "{" and "}" braces, "B" the
\* members of a JSON object (the payload), "N" the literal null.
Texts ==
    {<<>>,
     <<"w">>,
     <<"N">>,
     <<"{", "}">>,
     <<"{", "B", "}">>,
     <<"w", "{", "B", "}", "w">>,
     <<"w", "{", "w", "}">>,
     <<"}", "w", "{">>,
     <<"{", "B", "}", "w", "{", "B", "}">>}

HasMembers(text) == \E i \in 1..Len(text) : text[i] = "B"

\* where the response body carries the text: data.output_text, or
\* data.output[0].content[0].text
Shapes == {"output_text", "content"}

OpenAIResponses ==
    {[ok |-> FALSE, status |-> st, body |-> b, shape |-> "output_text",
      text |-> <<>>, payload |-> EmptyPayload] : st \in {429, 500}, b \in ErrBodies}
      \cup {[ok |-> TRUE, status |-> 200, body |-> <<>>, shape |-> sh,
             text |-> tx, payload |-> EmptyPayload] :
              sh \in Shapes, tx \in {t \in Texts : ~HasMembers(t)}}
      \cup {[ok |-> TRUE, status |-> 200, body |-> <<>>, shape |-> sh,
             text |-> tx, payload |-> pl] :
              sh \in Shapes, tx \in {t \in Texts : HasMembers(t)}, pl \in Payloads}

NoOpenAI ==
    [ok |-> FALSE, status |-> 0, body |-> <<>>, shape |-> "output_text",
     text |-> <<>>, payload |-> EmptyPayload]

----------------------------------------------------------------------------
(* JSON.parse and the brace regular expression, on token texts *)

\* JSON.parse(text): threw, or the value parsed (null, or an object)
Thrown == [threw |-> TRUE, isNull |-> FALSE, obj |-> EmptyPayload]
Parsed(isNull, obj) == [threw |-> FALSE, isNull |-> isNull, obj |-> obj]

JSONParse(text, payload) ==
    CASE text = <<"{", "B", "}">> -> Parsed(FALSE, payload)
      [] text = <<"{", "}">> -> Parsed(FALSE, EmptyPayload)
      [] text = <<"N">> -> Parsed(TRUE, EmptyPayload)
      [] OTHER -> Thrown

\* rawText.match(/\{[\s\S]*\}/): from the first "{" to the last "}" after it
NoMatch == [found |-> FALSE, text |-> <<>>]
RegexMatch(text) ==
    LET opens == {i \in 1..Len(text) : text[i] = "{"}
        first == CHOOSE i \in opens : \A k \in opens : i <= k
        closes == {j \in 1..Len(text) : text[j] = "}" /\ j > first}
        last == CHOOSE j \in closes : \A k \in closes : k <= j
    IN  IF opens = {} \/ closes = {} THEN NoMatch
        ELSE [found |-> TRUE, text |-> SubSeq(text, first, last)]

----------------------------------------------------------------------------
(* Responses: j(obj, status) / json(obj, status) *)

NoError == [msg |-> "", status |-> 0, body |-> <<>>]
Note(v, detail) == [v |-> v, detail |-> detail]
NoNote == Note(Undef, <<>>)

\* j({ ok: true }): the preflight acknowledgment; it has no envelope fields
OptionsResponse ==
    [status |-> 200, ok |-> TRUE, error |-> NoError, raw |-> <<>>,
     envelope |-> FALSE, query |-> NoQuery, programs |-> <<>>, notes |-> NoNote,
     count |-> 0]

\* j({ ok: false, error }, status)
Failure(status, msg, upstreamStatus, body) ==
    [status |-> status, ok |-> FALSE,
     error |-> [msg |-> msg, status |-> upstreamStatus, body |-> body],
     raw |-> <<>>, envelope |-> FALSE, query |-> NoQuery, programs |-> <<>>,
     notes |-> NoNote, count |-> 0]

\* json({ ok: false, error: "AI returned no usable programs", raw: rawText }, 502)
Unusable(rawText) ==
    [Failure(502, "AI returned no usable programs", 0, <<>>) EXCEPT !.raw = rawText]

\* j({ ok: true, query, programs, notes, count: programs.length })
Success(qq, programs, notes) ==
    [status |-> 200, ok |-> TRUE, error |-> NoError, raw |-> <<>>,
     envelope |-> TRUE, query |-> QueryEcho(qq), programs |-> programs,
     notes |-> notes, count |-> Len(programs)]

\* catch (err) { return j({ ok:false, error: String(err?.message || err) }, 500) }
Caught(msg, upstreamStatus, body) == Failure(500, msg, upstreamStatus, body)

NoResponse == Failure(0, "", 0, <<>>)

----------------------------------------------------------------------------
(* Snippets, digest, candidates *)

\* results.map(r => ({ title: r.title, url: r.url, snippet: r.snippet }))
Snippets(results) ==
    [i \in 1..Len(results) |->
        [title |-> results[i].title, url |-> results[i].url, len |-> results[i].len]]

\* arr.slice(0): the whole array, the cap forgotten
SliceAll(arr, n) == arr

\* arr.slice(0, n)
Slice(arr, n) == SubSeq(arr, 1, IF Len(arr) < n THEN Len(arr) ELSE n)

RECURSIVE BlocksLen(_)
\* the length of the blocks joined by "\n\n"
BlocksLen(sn) ==
    IF sn = <<>> THEN 0
    ELSE sn[1].len + (IF Len(sn) > 1 THEN 2 ELSE 0) + BlocksLen(Tail(sn))

\* the length of const digest
DigestLen(v, sn) ==
    IF v = 1 /\ BlocksLen(sn) > DigestBudget THEN DigestBudget ELSE BlocksLen(sn)

\* the candidate made of one search snippet (the source's name has an em dash
\* where this string has a hyphen)
FallbackCandidate(r, program) ==
    [name |-> Str("(unknown - open page)"), school |-> r.title, tuition |-> Null,
     url |-> r.url, minGpa |-> Null, testPolicy |-> Null, stem |-> Null,
     deadline |-> Null,
     why |-> Str("Candidate for " \o program \o ". Open link to confirm tuition/GPA/policy."),
     score |-> Null]

\* snippets.slice(0,3).map(r => ({ name: "(unknown ...)", ... }))
Fallback(sn, program) ==
    [i \in 1..Len(Slice(sn, MaxPrograms)) |-> FallbackCandidate(sn[i], program)]

\* the candidate made of one entry of the model's array (p is an object)
Normalize(v, p) ==
    [name |-> TrimmedString(p.name), school |-> TrimmedString(p.school),
     tuition |-> FiniteOrNull(p.tuition), url |-> TrimmedString(p.url),
     minGpa |-> Coalesce(p.minGpa, Null), testPolicy |-> Coalesce(p.testPolicy, Null),
     stem |-> IF v = 1 THEN BooleanOrNull(p.stem) ELSE ToBoolean(p.stem),
     deadline |-> Coalesce(p.deadline, Null), why |-> TrimmedString(p.why),
     score |-> FiniteOrNull(p.score)]

\* parsed.programs.slice(0,3).map(p => ({ ... })): reading p.name of a null
\* entry throws a TypeError
MapThrows(items) ==
    \E i \in 1..Len(Slice(items, MaxPrograms)) : items[i].isNull
Normalized(v, items) ==
    [i \in 1..Len(Slice(items, MaxPrograms)) |-> Normalize(v, items[i])]

----------------------------------------------------------------------------
(* The handler *)

Call(to, digestLen) == [to |-> to, digestLen |-> digestLen]

Init ==
    /\ variant \in {1, 2}
    /\ method \in {"GET", "OPTIONS"}
    /\ q \in Queries
    /\ env \in Envs
    /\ pc = "start"
    /\ calls = <<>>
    /\ tavilyIn = NoTavily
    /\ openaiIn = NoOpenAI
    /\ snippets = <<>>
    /\ response = NoResponse

\* return j(...): the handler ends with response r
Return(r) ==
    /\ response' = r
    /\ pc' = "done"

\* await fetch(url, ...): the handler issues the call and suspends
Fetch(to, digestLen, at) ==
    /\ calls' = Append(calls, Call(to, digestLen))
    /\ pc' = at

\* if (req.method === "OPTIONS") return j({ ok: true })
Options ==
    /\ pc = "start"
    /\ method = "OPTIONS"
    /\ Return(OptionsResponse)
    /\ UNCHANGED <<variant, method, q, env, calls, tavilyIn, openaiIn, snippets>>

\* if (!tvlyKey) return j({ ok:false, error:"Missing TAVILY_API_KEY" }, 500)
MissingTavilyKey ==
    /\ pc = "start"
    /\ method # "OPTIONS"
    /\ Falsy(env.TAVILY_API_KEY)
    /\ Return(Failure(500, "Missing TAVILY_API_KEY", 0, <<>>))
    /\ UNCHANGED <<variant, method, q, env, calls, tavilyIn, openaiIn, snippets>>

\* the fetch issued without the credential check before it
FetchTavilyUnchecked ==
    /\ pc = "start"
    /\ method # "OPTIONS"
    /\ Fetch("tavily", 0, "awaitTavily")
    /\ UNCHANGED <<variant, method, q, env, tavilyIn, openaiIn, snippets, response>>

\* const tRes = await fetch(TAVILY_URL, ...)
FetchTavily ==
    /\ pc = "start"
    /\ method # "OPTIONS"
    /\ ~Falsy(env.TAVILY_API_KEY)
    /\ Fetch("tavily", 0, "awaitTavily")
    /\ UNCHANGED <<variant, method, q, env, tavilyIn, openaiIn, snippets, response>>

\* whether variant 1 attempts the extraction: if (!openaiOff && oaiKey)
Attempts(qq, e) == ~OpenaiOff(qq) /\ ~Falsy(e.OPENAI_API_KEY)

\* the note of a skipped extraction (variant 1, the two else-if branches)
SkipNote(qq, e) ==
    IF Falsy(e.OPENAI_API_KEY) /\ ~OpenaiOff(qq)
    THEN Note(Str("Missing OPENAI_API_KEY - showing web candidates"), <<>>)
    ELSE Note(Str("OpenAI disabled via ?openai=off - showing web candidates"), <<>>)

\* Variant 1 resumed by the search provider's response tRes (lines 55-128, 163-189)
V1AfterTavily(tRes) ==
    /\ variant = 1
    /\ pc = "awaitTavily"
    /\ tavilyIn' = tRes
    /\ IF ~tRes.ok
       THEN /\ Return(Failure(502, "Tavily HTTP", tRes.status, tRes.body))
            /\ UNCHANGED <<calls, snippets>>
       ELSE IF tRes.results.t = "null" \/ Len(tRes.results.items) = 0
       THEN /\ Return(Failure(404, "No web results found", 0, <<>>))
            /\ UNCHANGED <<calls, snippets>>
       ELSE /\ snippets' = Snippets(tRes.results.items)
            /\ IF Attempts(q, env)
               THEN /\ Fetch("openai", DigestLen(1, snippets'), "awaitOpenAI")
                    /\ UNCHANGED response
               ELSE /\ Return(Success(q, Fallback(snippets', Program(q)), SkipNote(q, env)))
                    /\ UNCHANGED calls
    /\ UNCHANGED <<variant, method, q, env, openaiIn>>

\* Variant 2 resumed by the search provider's response tRes (lines 250-326)
V2AfterTavily(tRes) ==
    /\ variant = 2
    /\ pc = "awaitTavily"
    /\ tavilyIn' = tRes
    /\ IF ~tRes.ok
       THEN /\ Return(Failure(502, "Tavily HTTP", tRes.status, tRes.body))
            /\ UNCHANGED <<calls, snippets>>
       ELSE IF tRes.results.t = "null"
       THEN /\ Return(Caught("TypeError", 0, <<>>))
            /\ UNCHANGED <<calls, snippets>>
       ELSE /\ snippets' = Snippets(tRes.results.items)
            /\ IF Falsy(env.OPENAI_API_KEY)
               THEN /\ Return(Failure(500, "Missing OPENAI_API_KEY", 0, <<>>))
                    /\ UNCHANGED calls
               ELSE /\ Fetch("openai", DigestLen(2, snippets'), "awaitOpenAI")
                    /\ UNCHANGED response
    /\ UNCHANGED <<variant, method, q, env, openaiIn>>

TavilyResponds ==
    \E tRes \in TavilyResponses : V1AfterTavily(tRes) \/ V2AfterTavily(tRes)

\* const raw = data?.output_text ?? ""  (variant 1);
\* const rawText = aiData?.output_text ?? aiData?.output?.[0]?.content?.[0]?.text
\*                 ?? ... ?? ""  (variant 2)
RawText(v, r) == IF v = 1 /\ r.shape # "output_text" THEN <<>> ELSE r.text

ParseFailedNote == Note(Str("OpenAI JSON parse failed; showing web candidates"), <<>>)
NonJSONNote == Note(Str("OpenAI returned non-JSON; showing web candidates"), <<>>)

\* What variant 1 returns once the language-model provider has answered r
\* (lines 130-162, 169-192)
V1Outcome(qq, sn, r) ==
    LET fallback == Fallback(sn, Program(qq))
        parsed == JSONParse(RawText(1, r), r.payload)
    IN  IF ~r.ok
        THEN IF r.status = 429 \/ QuotaOrRate(r.body)
             THEN Success(qq, fallback, Note(Str("OpenAI limit/quota"), r.body))
             ELSE Caught("OpenAI HTTP", r.status, r.body)
        ELSE IF parsed.threw
        THEN Success(qq, fallback, ParseFailedNote)
        ELSE IF ~parsed.isNull /\ parsed.obj.programs.t = "array"
        THEN IF MapThrows(parsed.obj.programs.items)
             THEN Success(qq, fallback, ParseFailedNote)
             ELSE Success(qq, Normalized(1, parsed.obj.programs.items),
                          Note(Coalesce(parsed.obj.notes, Null), <<>>))
        ELSE Success(qq, fallback, NonJSONNote)

\* try { parsed = JSON.parse(rawText) } catch { const m = rawText.match(...);
\* parsed = m ? JSON.parse(m[0]) : null }  (variant 2, lines 343-349).
\* The JSON.parse of the catch block is not guarded: its exception escapes.
TwoStageParse(rawText, payload) ==
    LET direct == JSONParse(rawText, payload)
        m == RegexMatch(rawText)
    IN  IF ~direct.threw THEN direct
        ELSE IF m.found THEN JSONParse(m.text, payload)
        ELSE Parsed(TRUE, EmptyPayload)

\* What variant 2 returns once the language-model provider has answered r
\* (lines 328-378)
V2Outcome(qq, sn, r) ==
    LET rawText == RawText(2, r)
        parsed == TwoStageParse(rawText, r.payload)
    IN  IF ~r.ok
        THEN Failure(502, "OpenAI HTTP", r.status, r.body)
        ELSE IF parsed.threw
        THEN Caught("SyntaxError", 0, <<>>)
        ELSE IF parsed.isNull \/ parsed.obj.ok = Bool(FALSE)
                \/ parsed.obj.programs.t # "array"
        THEN Unusable(rawText)
        ELSE IF MapThrows(parsed.obj.programs.items)
        THEN Caught("TypeError", 0, <<>>)
        ELSE Success(qq, Normalized(2, parsed.obj.programs.items),
                     Note(Coalesce(parsed.obj.notes, Null), <<>>))

\* Variant 1 resumed by the language-model provider's response r
V1AfterOpenAI(r) ==
    /\ variant = 1
    /\ pc = "awaitOpenAI"
    /\ openaiIn' = r
    /\ Return(V1Outcome(q, snippets, r))
    /\ UNCHANGED <<variant, method, q, env, calls, tavilyIn, snippets>>

\* Variant 2 resumed by the language-model provider's response aiRes
V2AfterOpenAI(r) ==
    /\ variant = 2
    /\ pc = "awaitOpenAI"
    /\ openaiIn' = r
    /\ Return(V2Outcome(q, snippets, r))
    /\ UNCHANGED <<variant, method, q, env, calls, tavilyIn, snippets>>

OpenAIResponds ==
    \E r \in OpenAIResponses : V1AfterOpenAI(r) \/ V2AfterOpenAI(r)

Next ==
    \/ Options
    \/ MissingTavilyKey
    \/ FetchTavily
    \/ TavilyResponds
    \/ OpenAIResponds

Spec == Init /\ [][Next]_vars

----------------------------------------------------------------------------
(* Vocabulary of the properties *)

Done == pc = "done"
Called(to) == \E i \in 1..Len(calls) : calls[i].to = to
CallsTo(to) == Cardinality({i \in 1..Len(calls) : calls[i].to = to})

\* the search provider has answered with success status and at least one result
SearchFound == tavilyIn.ok /\ Len(tavilyIn.results.items) >= 1
\* the search provider has answered with success status and no result
SearchEmpty ==
    /\ tavilyIn.ok
    /\ tavilyIn.results.t \in {"undefined", "array"}
    /\ Len(tavilyIn.results.items) = 0

\* the language-model provider has answered
OpenAIAnswered == openaiIn # NoOpenAI
OpenAIQuota ==
    OpenAIAnswered /\ ~openaiIn.ok /\ (openaiIn.status = 429 \/ QuotaOrRate(openaiIn.body))
OpenAIHardError ==
    OpenAIAnswered /\ ~openaiIn.ok /\ openaiIn.status # 429 /\ ~QuotaOrRate(openaiIn.body)

FiniteNumberOrNull(v) == v = Null \/ (v.t = "number" /\ v.s \notin {"NaN", "Infinity"})

\* the response is the success envelope built of the search snippets
IsFallback ==
    /\ response.ok
    /\ response.status = 200
    /\ Len(response.programs) =
         (IF Len(tavilyIn.results.items) < 3 THEN Len(tavilyIn.results.items) ELSE 3)
    /\ \A i \in 1..Len(response.programs) :
         /\ response.programs[i].name = Str("(unknown - open page)")
         /\ response.programs[i].school = tavilyIn.results.items[i].title
         /\ response.programs[i].url = tavilyIn.results.items[i].url
         /\ \A f \in {"tuition", "minGpa", "testPolicy", "stem", "deadline", "score"} :
              response.programs[i][f] = Null
    /\ ~Nullish(response.notes.v)

----------------------------------------------------------------------------
(* C1: every success response built for a request that reached the search  *)
(* has at most 3 programs, and its count is the length of its programs.    *)
C1_AtMostThreeAndCounted ==
    (Done /\ response.ok /\ method # "OPTIONS") =>
        /\ Len(response.programs) <= 3
        /\ response.count = Len(response.programs)

\* the model returned more than 3 programs, the search more than 3 results,
\* and the success response carries exactly 3
C1_Witness ==
    /\ Done /\ response.ok
    /\ Len(tavilyIn.results.items) > 3
    /\ openaiIn.ok /\ Len(openaiIn.payload.programs.items) > 3
    /\ response.notes.v = Str("ranked by fit")
    /\ Len(response.programs) = 3 /\ response.count = 3

(* C4: with the search-provider credential absent, a non-OPTIONS request   *)
(* issues no outbound call at any point and ends ok:false with status 500. *)
C4_NoKeyNoCall ==
    (method # "OPTIONS" /\ Falsy(env.TAVILY_API_KEY)) =>
        /\ calls = <<>>
        /\ pc \in {"start", "done"}
        /\ Done => (~response.ok /\ response.status = 500)

C4_Witness ==
    /\ Done /\ method = "GET" /\ Falsy(env.TAVILY_API_KEY)
    /\ ~Falsy(env.OPENAI_API_KEY)
    /\ response.status = 500 /\ calls = <<>>

C2_EmptySearchIs404 ==
    SearchEmpty =>
        /\ ~Called("openai")
        /\ Done
        /\ ~response.ok /\ response.status = 404

(* C3: whenever the search found results and the language-model provider   *)
(* answers non-success with status 429 or a rate/quota body, the handler   *)
(* ends ok:true (200) with the snippet-derived candidates and a note.      *)
C3_QuotaIsSoft ==
    (Done /\ SearchFound /\ OpenAIQuota) => IsFallback

(* C5: whenever the search found results and the language-model provider   *)
(* answers with success but its text is non-JSON without a brace, or       *)
(* parses to a value whose programs field is not an array, the handler     *)
(* ends ok:true (200) with candidates built of the first 3 snippets and a  *)
(* parse-failure / unexpected-shape note.                                  *)
C5_UnusableTextFallsBack ==
    LET direct == JSONParse(openaiIn.text, openaiIn.payload)
        noBrace == \A i \in 1..Len(openaiIn.text) : openaiIn.text[i] \notin {"{", "}"}
    IN  (/\ Done /\ SearchFound /\ OpenAIAnswered /\ openaiIn.ok
         /\ \/ direct.threw /\ noBrace
            \/ ~direct.threw /\ (direct.isNull \/ direct.obj.programs.t # "array"))
        => /\ IsFallback
           /\ response.notes \in {ParseFailedNote, NonJSONNote}

(* C6: when the extraction is skipped (the toggle is "off" in any case, or *)
(* the language-model credential is absent) and the search found results,  *)
(* no call to the language-model provider is made and the handler ends     *)
(* ok:true (200) with one fallback candidate per snippet up to 3 and a     *)
(* note naming the reason.                                                 *)
C6_SkipIsNotAnError ==
    (/\ SearchFound
     /\ \/ (q.openai.present /\ ToLowerCase(q.openai.cs) = <<"o", "f", "f">>)
        \/ Falsy(env.OPENAI_API_KEY))
    => /\ ~Called("openai")
       /\ Done
       /\ IsFallback
       /\ response.notes.v \in
            {Str("Missing OPENAI_API_KEY - showing web candidates"),
             Str("OpenAI disabled via ?openai=off - showing web candidates")}

(* C7: whenever the language-model provider answers non-success outside    *)
(* the quota/rate-limit case, the handler ends ok:false with status 502    *)
(* and an error carrying the provider's status and body; a non-success     *)
(* status of the search provider ends with status 502 too.                 *)
C7_UpstreamErrorIs502 ==
    /\ (Done /\ OpenAIHardError) =>
          /\ ~response.ok /\ response.status = 502
          /\ response.error.status = openaiIn.status
          /\ response.error.body = openaiIn.body
    /\ (Done /\ tavilyIn # NoTavily /\ ~tavilyIn.ok) =>
          /\ ~response.ok /\ response.status = 502

(* C9: one request issues at most one call to the search provider and at   *)
(* most one to the language-model provider, the second only after the      *)
(* first has completed with success status and at least one result; an     *)
(* OPTIONS request issues no call.                                         *)
C9_CallDiscipline ==
    /\ CallsTo("tavily") <= 1
    /\ CallsTo("openai") <= 1
    /\ Called("openai") => (calls[1].to = "tavily" /\ SearchFound)
    /\ method = "OPTIONS" => calls = <<>>

(* C10: when the direct JSON parse of the model's text fails, no exception *)
(* escapes: if the first {...} substring is valid JSON with a programs     *)
(* array its programs are the structured output; otherwise the request     *)
(* ends ok:true with fallback candidates and a note; never status 500.     *)
C10_TwoStageParseNeverThrows ==
    LET direct == JSONParse(openaiIn.text, openaiIn.payload)
        m == RegexMatch(openaiIn.text)
        second == JSONParse(m.text, openaiIn.payload)
        usable == m.found /\ ~second.threw /\ ~second.isNull
                    /\ second.obj.programs.t = "array"
                    /\ ~MapThrows(second.obj.programs.items)
    IN  (Done /\ SearchFound /\ OpenAIAnswered /\ openaiIn.ok /\ direct.threw) =>
           /\ response.status # 500
           /\ usable =>
                /\ response.ok
                /\ Len(response.programs) =
                     Len(Slice(second.obj.programs.items, 3))
                /\ \A i \in 1..Len(response.programs) :
                     response.programs[i].tuition =
                       FiniteOrNull(second.obj.programs.items[i].tuition)
           /\ (m.found /\ second.threw) => IsFallback

====
